---- MODULE Spec2Model ----
(***************************************************************************)
(* A model of the highs package's low-level wrapper (src/utils.go): the    *)
(* status classification, convertSlice, the RawModel option accessors,     *)
(* RawSolution's info accessors, RawModel.Solve and the finalizer that     *)
(* NewRawModel installs, together with the engine calls they make.         *)
(***************************************************************************)
EXTENDS Integers, Sequences, FiniteSets, TLC

\* Bounds of the model.
MaxModels == 1
MaxDim == 2
MaxNnz == 3
MaxRowIdx == 2
MaxColIdx == 1

\* kHighsStatus values of the engine's C interface.
kHighsStatusError == -1
kHighsStatusOk == 0
kHighsStatusWarning == 1

\* The codes an engine call may hand back: the three known ones and one
\* unknown code on either side of them.
StatusCodes == (kHighsStatusError - 1) .. (kHighsStatusWarning + 1)

\* The zero value of an unsafe.Pointer.
NULL == 0

Models == 1 .. MaxModels
Handles == 1 .. MaxModels
Dims == 0 .. MaxDim

VARIABLES
    obj,        \* obj[m]: RawModel.obj of model m (NULL before NewRawModel)
    life,       \* life[m]: "unborn", "reachable", "unreachable", "finalized"
    hstate,     \* hstate[h]: the engine handle: "free", "live", "destroyed"
    destroys,   \* destroys[h]: number of Highs_destroy calls on h
    eng,        \* eng[h]: the engine's model behind handle h
    frame,      \* the wrapper call in progress (pc = "idle" when none)
    log,        \* engine calls and status codes of the current or last call
    ret,        \* what the last wrapper call returned (NoReturn while one runs),
                \* with the counts the engine reported and the vectors it wrote
    csr         \* input and output of the last nonzerosToCSR application

vars == <<obj, life, hstate, destroys, eng, frame, log, ret, csr>>

----------------------------------------------------------------------------
(* Errors.  A Go error is nil, an errorString made by fmt.Errorf, or a     *)
(* HighsStatus.  A message is kept as its sequence of words.               *)

NoError == [kind |-> "nil", msg |-> <<>>, Status |-> 0, CName |-> "", GoName |-> ""]

Errorf(words) ==
    [kind |-> "errorString", msg |-> words, Status |-> 0, CName |-> "", GoName |-> ""]

\* HighsStatus.Error: the message of a HighsStatus; the %s is never filled in.
HighsStatus_Error(e) ==
    IF e.Status = kHighsStatusError THEN <<"%s", "failed", "with", "an", "error">>
    ELSE IF e.Status = kHighsStatusWarning THEN <<"%s", "failed", "with", "a", "warning">>
    ELSE <<"%s", "failed", "with", "an", "unknown", "status">>

\* HighsStatus.IsWarning
IsWarning(e) == e.Status = kHighsStatusWarning

\* newHighsStatus: nil for kHighsStatusOk, a HighsStatus otherwise.
newHighsStatus(st, hName, gName) ==
    IF st = kHighsStatusOk THEN NoError
    ELSE LET e == [kind |-> "HighsStatus", msg |-> <<>>, Status |-> st,
                   CName |-> hName, GoName |-> gName]
         IN [e EXCEPT !.msg = HighsStatus_Error(e)]

\* A variant of the accessors' switch that takes Warning for success.
AccessorError_collapsing(goName, st) ==
    IF st = kHighsStatusOk \/ st = kHighsStatusWarning THEN NoError
    ELSE IF st = kHighsStatusError THEN Errorf(<<goName, "error">>)
    ELSE Errorf(<<goName, "unknown", "status">>)

\* The switch every option and info accessor ends with.
AccessorError(goName, st) ==
    IF st = kHighsStatusOk THEN NoError
    ELSE IF st = kHighsStatusError THEN Errorf(<<goName, "error">>)
    ELSE IF st = kHighsStatusWarning THEN Errorf(<<goName, "warning">>)
    ELSE Errorf(<<goName, "unknown", "status">>)

\* The switch of Solve after Highs_run.
RunError(st) ==
    IF st = kHighsStatusOk THEN NoError
    ELSE IF st = kHighsStatusWarning THEN Errorf(<<"model", "failed", "with", "a", "warning">>)
    ELSE IF st = kHighsStatusError THEN Errorf(<<"model", "failed", "with", "an", "error">>)
    ELSE Errorf(<<"model", "failed", "with", "an", "unknown", "status">>)

\* The switch of Solve after Highs_getSolution.
GetSolutionError(st) ==
    IF st = kHighsStatusOk THEN NoError
    ELSE IF st = kHighsStatusWarning
        THEN Errorf(<<"Highs_getSolution", "failed", "with", "a", "warning">>)
    ELSE IF st = kHighsStatusError
        THEN Errorf(<<"Highs_getSolution", "failed", "with", "an", "error">>)
    ELSE Errorf(<<"Highs_getSolution", "failed", "with", "an", "unknown", "status">>)

\* Whether a message contains a word.
Mentions(msg, word) == \E i \in 1 .. Len(msg) : msg[i] = word

----------------------------------------------------------------------------
(* Solutions.                                                              *)

\* The zero value of ModelStatus, and the statuses a raw code converts to.
ModelStatusZero == "zero"
ModelStatusCodes == {7, 99}
convertHighsModelStatus(code) == IF code = 7 THEN "Optimal" ELSE "Other"

\* &RawSolution{}
EmptySolution ==
    [obj |-> NULL, Status |-> ModelStatusZero,
     ColumnPrimal |-> <<>>, RowPrimal |-> <<>>,
     ColumnDual |-> <<>>, RowDual |-> <<>>,
     ColumnBasis |-> <<>>, RowBasis |-> <<>>, Objective |-> 0]

\* A variant of convertSlice whose loop stops one element early.
convertSlice_truncating(from) ==
    [i \in 1 .. (IF Len(from) = 0 THEN 0 ELSE Len(from) - 1) |-> from[i]]

\* convertSlice: a new slice of the same length, element i converted from
\* element i.  C.double to float64 keeps the value.
convertSlice(from) == [i \in 1 .. Len(from) |-> from[i]]

\* make([]C.double, n)
MakeDoubles(n) == [i \in 1 .. n |-> 0]

\* What the engine holds as vector k of the solution of the model behind
\* handle h: a distinct value for every handle, vector and position.
EngineVector(h, k, n) == [i \in 1 .. n |-> 100 * h + 10 * k + i]
\* The objective value and the basis statuses the engine holds.
EngineObjective(h) == 100 * h + 50
EngineBasis(h, n) == [i \in 1 .. n |-> "Basic"]

NoBuffers == [colValue |-> <<>>, colDual |-> <<>>, rowValue |-> <<>>, rowDual |-> <<>>]

----------------------------------------------------------------------------
(* The state after construction: no model, no handle, no call.             *)

EmptyEngine == [numCol |-> 0, numRow |-> 0]

IdleFrame ==
    [pc |-> "idle", op |-> "", m |-> 0, h |-> NULL, soln |-> EmptySolution,
     nc |-> 0, nr |-> 0, bufs |-> NoBuffers]

NoLog == [op |-> "", calls |-> <<>>, codes |-> <<>>]

NoReturn ==
    [op |-> "", h |-> NULL, soln |-> EmptySolution, err |-> NoError,
     val |-> "none", panic |-> FALSE, nc |-> 0, nr |-> 0, wrote |-> NoBuffers]

NoCSR ==
    [nz |-> <<>>, colMajor |-> FALSE,
     out |-> [start |-> <<>>, index |-> <<>>, value |-> <<>>, err |-> FALSE],
     done |-> FALSE]

Init ==
    /\ obj = [m \in Models |-> NULL]
    /\ life = [m \in Models |-> "unborn"]
    /\ hstate = [h \in Handles |-> "free"]
    /\ destroys = [h \in Handles |-> 0]
    /\ eng = [h \in Handles |-> EmptyEngine]
    /\ frame = IdleFrame
    /\ log = NoLog
    /\ ret = NoReturn
    /\ csr = NoCSR

\* An engine call through handle h, as the log keeps it.
EngineCall(fn, h) ==
    [fn |-> fn, h |-> h, hs |-> IF h = NULL THEN "null" ELSE hstate[h]]

Idle == frame.pc = "idle"

----------------------------------------------------------------------------
(* Construction and release.                                               *)

\* NewRawModel: Highs_create and SetFinalizer.  The engine's model is empty.
NewRawModel(m) ==
    /\ Idle
    /\ life[m] = "unborn"
    /\ \A k \in Models : k < m => life[k] # "unborn"
    /\ hstate[m] = "free"
    /\ obj' = [obj EXCEPT ![m] = m]
    /\ life' = [life EXCEPT ![m] = "reachable"]
    /\ hstate' = [hstate EXCEPT ![m] = "live"]
    /\ eng' = [eng EXCEPT ![m] = EmptyEngine]
    /\ UNCHANGED <<destroys, frame, log, ret, csr>>

\* LPModel.ToRawModel: a new raw model loaded with nc columns and nr rows.
ToRawModel(m, nc, nr) ==
    /\ Idle
    /\ life[m] = "unborn"
    /\ \A k \in Models : k < m => life[k] # "unborn"
    /\ hstate[m] = "free"
    /\ obj' = [obj EXCEPT ![m] = m]
    /\ life' = [life EXCEPT ![m] = "reachable"]
    /\ hstate' = [hstate EXCEPT ![m] = "live"]
    /\ eng' = [eng EXCEPT ![m] = [numCol |-> nc, numRow |-> nr]]
    /\ UNCHANGED <<destroys, frame, log, ret, csr>>

\* The places of a wrapper call after which it no longer refers to its
\* receiver: the receiver's obj has been read for the call's last engine call.
PastLastUse == {"optionCall", "getSolution"}

\* The program's last reference to model m goes away: between calls, or in
\* a call on m that has read m.obj for the last time (no KeepAlive follows).
Drop(m) ==
    /\ life[m] = "reachable"
    /\ Idle \/ (frame.m = m /\ frame.pc \in PastLastUse)
    /\ life' = [life EXCEPT ![m] = "unreachable"]
    /\ UNCHANGED <<obj, hstate, destroys, eng, frame, log, ret, csr>>

\* The finalizer of an unreachable model runs, once: Highs_destroy(m.obj),
\* which frees the engine's model.
Finalizer(m) ==
    /\ life[m] = "unreachable"
    /\ life' = [life EXCEPT ![m] = "finalized"]
    /\ hstate' = [hstate EXCEPT ![obj[m]] = "destroyed"]
    /\ destroys' = [destroys EXCEPT ![obj[m]] = @ + 1]
    /\ eng' = [eng EXCEPT ![obj[m]] = EmptyEngine]
    /\ UNCHANGED <<obj, frame, log, ret, csr>>

----------------------------------------------------------------------------
(* The option accessors of RawModel.  Each marshals its arguments, reads   *)
(* m.obj and makes one engine call; the switch on the call's status ends   *)
(* it.  The engine call is a step of its own: the finalizer goroutine runs *)
(* beside the caller.                                                      *)

OptionOps ==
    {"SetBoolOption", "SetIntOption", "SetFloat64Option", "SetStringOption",
     "GetBoolOption", "GetIntOption", "GetFloat64Option", "GetStringOption"}
InfoOps == {"GetIntInfo", "GetInt64Info", "GetFloat64Info"}

\* The engine function each accessor calls.
CNameOf(op) ==
    CASE op = "SetBoolOption" -> "Highs_setBoolOptionValue"
      [] op = "SetIntOption" -> "Highs_setIntOptionValue"
      [] op = "SetFloat64Option" -> "Highs_setDoubleOptionValue"
      [] op = "SetStringOption" -> "Highs_setStringOptionValue"
      [] op = "GetBoolOption" -> "Highs_getBoolOptionValue"
      [] op = "GetIntOption" -> "Highs_getIntOptionValue"
      [] op = "GetFloat64Option" -> "Highs_getDoubleOptionValue"
      [] op = "GetStringOption" -> "Highs_getStringOptionValue"
      [] op = "GetIntInfo" -> "Highs_getIntInfoValue"
      [] op = "GetInt64Info" -> "Highs_getInt64InfoValue"
      [] op = "GetFloat64Info" -> "Highs_getDoubleInfoValue"

\* An accessor up to its engine call: the arguments are converted and m.obj
\* is read.
OptionEnter(op, m) ==
    /\ Idle
    /\ life[m] = "reachable"
    /\ frame' = [IdleFrame EXCEPT !.pc = "optionCall", !.op = op, !.m = m, !.h = obj[m]]
    /\ log' = [op |-> op, calls |-> <<>>, codes |-> <<>>]
    /\ ret' = NoReturn
    /\ UNCHANGED <<obj, life, hstate, destroys, eng, csr>>

SetBoolOption(m) == OptionEnter("SetBoolOption", m)
SetIntOption(m) == OptionEnter("SetIntOption", m)
SetFloat64Option(m) == OptionEnter("SetFloat64Option", m)
SetStringOption(m) == OptionEnter("SetStringOption", m)
GetBoolOption(m) == OptionEnter("GetBoolOption", m)
GetIntOption(m) == OptionEnter("GetIntOption", m)
GetFloat64Option(m) == OptionEnter("GetFloat64Option", m)
GetStringOption(m) == OptionEnter("GetStringOption", m)

\* What an accessor returns beside the error: the engine's value on Ok, the
\* zero value otherwise (a setter returns the error alone).
AccessorValue(op, st) ==
    IF op \in {"SetBoolOption", "SetIntOption", "SetFloat64Option", "SetStringOption"}
    THEN "none"
    ELSE IF st = kHighsStatusOk THEN "engine" ELSE "zero"

\* The engine call of the accessor in progress returns st; the accessor's
\* switch turns it into the result.
OptionCallReturns(st) ==
    /\ frame.pc = "optionCall"
    /\ log' = [log EXCEPT !.calls = <<EngineCall(CNameOf(frame.op), frame.h)>>,
                          !.codes = <<st>>]
    /\ ret' = [NoReturn EXCEPT !.op = frame.op, !.h = frame.h,
                               !.err = AccessorError(frame.op, st),
                               !.val = AccessorValue(frame.op, st)]
    /\ frame' = IdleFrame
    /\ UNCHANGED <<obj, life, hstate, destroys, eng, csr>>

\* Whether the caller holds a solution: the last Solve returned one, and
\* only info accessors were called since.
HasSolution == ret.op \in ({"Solve"} \cup InfoOps) /\ ~ret.panic

\* An info accessor of the solution the caller holds: one engine call
\* through s.obj, then the same switch.
InfoCall(op, st) ==
    /\ Idle
    /\ HasSolution
    /\ log' = [op |-> op, calls |-> <<EngineCall(CNameOf(op), ret.soln.obj)>>,
               codes |-> <<st>>]
    /\ ret' = [ret EXCEPT !.op = op, !.err = AccessorError(op, st),
                          !.val = AccessorValue(op, st)]
    /\ UNCHANGED <<obj, life, hstate, destroys, eng, frame, csr>>

GetIntInfo(st) == InfoCall("GetIntInfo", st)
GetInt64Info(st) == InfoCall("GetInt64Info", st)
GetFloat64Info(st) == InfoCall("GetFloat64Info", st)

\* newHighsStatus applied to a status and the names of a call.
NewHighsStatusCall(st, hName, gName) ==
    /\ Idle
    /\ log' = [op |-> "newHighsStatus", calls |-> <<>>, codes |-> <<st>>]
    /\ ret' = [NoReturn EXCEPT !.op = "newHighsStatus",
                               !.err = newHighsStatus(st, hName, gName)]
    /\ UNCHANGED <<obj, life, hstate, destroys, eng, frame, csr>>

----------------------------------------------------------------------------
(* RawModel.Solve.                                                         *)

\* A variant of the switch after Highs_run that also goes on after Warning.
RunContinues_onWarning(st) == st = kHighsStatusOk \/ st = kHighsStatusWarning

\* The switch after Highs_run: only on Ok does Solve go on.
RunContinues(st) == st = kHighsStatusOk

\* Indexing slice buf at 0 panics when the slice is empty.
IndexPanics(buf) == Len(buf) = 0

\* Solve up to the switch on Highs_run's status: soln := &RawSolution{},
\* the run, and the return on a status other than Ok.
Solve_run(m, st) ==
    /\ Idle
    /\ life[m] = "reachable"
    /\ log' = [op |-> "Solve", calls |-> <<EngineCall("Highs_run", obj[m])>>,
               codes |-> <<st>>]
    /\ IF RunContinues(st)
       THEN /\ frame' = [IdleFrame EXCEPT !.pc = "extract", !.op = "Solve", !.m = m,
                                          !.soln = EmptySolution]
            /\ ret' = NoReturn
       ELSE /\ frame' = IdleFrame
            /\ ret' = [NoReturn EXCEPT !.op = "Solve", !.h = obj[m],
                                       !.soln = EmptySolution, !.err = RunError(st)]
    /\ UNCHANGED <<obj, life, hstate, destroys, eng, csr>>

\* Solve from the model status to the arguments of Highs_getSolution: the
\* status, the counts, the four buffers, and the address of element 0 of
\* each, which panics on an empty buffer.
Solve_extract(ms) ==
    /\ frame.pc = "extract"
    /\ LET h == obj[frame.m]
           nc == eng[h].numCol
           nr == eng[h].numRow
           soln == [frame.soln EXCEPT !.Status = convertHighsModelStatus(ms)]
           bufs == [colValue |-> MakeDoubles(nc), colDual |-> MakeDoubles(nc),
                    rowValue |-> MakeDoubles(nr), rowDual |-> MakeDoubles(nr)]
       IN /\ log' = [log EXCEPT !.calls = @ \o <<EngineCall("Highs_getModelStatus", h),
                                                 EngineCall("Highs_getNumCol", h),
                                                 EngineCall("Highs_getNumRow", h)>>]
          /\ IF \/ IndexPanics(bufs.colValue) \/ IndexPanics(bufs.colDual)
                \/ IndexPanics(bufs.rowValue) \/ IndexPanics(bufs.rowDual)
             THEN /\ frame' = IdleFrame
                  /\ ret' = [NoReturn EXCEPT !.op = "Solve", !.h = h, !.panic = TRUE,
                                             !.nc = nc, !.nr = nr]
             ELSE /\ frame' = [frame EXCEPT !.pc = "getSolution", !.h = h, !.soln = soln,
                                            !.nc = nc, !.nr = nr, !.bufs = bufs]
                  /\ ret' = ret
    /\ UNCHANGED <<obj, life, hstate, destroys, eng, csr>>

\* What Highs_getSolution writes into buffers of nc and nr elements: the
\* solution of the handle's model, or, through a destroyed handle, whatever
\* the freed memory holds.
EngineWrites(src, nc, nr) ==
    [colValue |-> EngineVector(src, 1, nc), colDual |-> EngineVector(src, 2, nc),
     rowValue |-> EngineVector(src, 3, nr), rowDual |-> EngineVector(src, 4, nr)]

\* Solve from Highs_getSolution on: the call, the switch on its status, the
\* four conversions and the return.
Solve_getSolution(st) ==
    /\ frame.pc = "getSolution"
    /\ \E src \in (IF hstate[frame.h] = "live" THEN {frame.h} ELSE Handles) :
         LET wrote == EngineWrites(src, Len(frame.bufs.colValue), Len(frame.bufs.rowValue))
             soln == [frame.soln EXCEPT !.ColumnPrimal = convertSlice(wrote.colValue),
                                        !.RowPrimal = convertSlice(wrote.rowValue),
                                        !.ColumnDual = convertSlice(wrote.colDual),
                                        !.RowDual = convertSlice(wrote.rowDual)]
         IN /\ log' = [log EXCEPT !.calls = Append(@, EngineCall("Highs_getSolution", frame.h)),
                                  !.codes = Append(@, st)]
            /\ ret' = IF st = kHighsStatusOk
                      THEN [NoReturn EXCEPT !.op = "Solve", !.h = frame.h, !.soln = soln,
                                            !.nc = frame.nc, !.nr = frame.nr,
                                            !.wrote = wrote]
                      ELSE [NoReturn EXCEPT !.op = "Solve", !.h = frame.h,
                                            !.soln = EmptySolution,
                                            !.err = GetSolutionError(st),
                                            !.nc = frame.nc, !.nr = frame.nr,
                                            !.wrote = wrote]
    /\ frame' = IdleFrame
    /\ UNCHANGED <<obj, life, hstate, destroys, eng, csr>>

----------------------------------------------------------------------------
CallNames == {"Highs_run", "Highs_getSolution"}

Next ==
    \/ \E m \in Models : NewRawModel(m)
    \/ \E m \in Models, nc \in Dims, nr \in Dims : ToRawModel(m, nc, nr)
    \/ \E m \in Models : Drop(m)
    \/ \E m \in Models : Finalizer(m)
    \/ \E m \in Models : SetBoolOption(m)
    \/ \E m \in Models : SetIntOption(m)
    \/ \E m \in Models : SetFloat64Option(m)
    \/ \E m \in Models : SetStringOption(m)
    \/ \E m \in Models : GetBoolOption(m)
    \/ \E m \in Models : GetIntOption(m)
    \/ \E m \in Models : GetFloat64Option(m)
    \/ \E m \in Models : GetStringOption(m)
    \/ \E st \in StatusCodes : OptionCallReturns(st)
    \/ \E st \in StatusCodes : GetIntInfo(st)
    \/ \E st \in StatusCodes : GetInt64Info(st)
    \/ \E st \in StatusCodes : GetFloat64Info(st)
    \/ \E st \in StatusCodes, hName \in CallNames : NewHighsStatusCall(st, hName, "Solve")
    \/ \E m \in Models, st \in StatusCodes : Solve_run(m, st)
    \/ \E ms \in ModelStatusCodes : Solve_extract(ms)
    \/ \E st \in StatusCodes : Solve_getSolution(st)

Spec == Init /\ [][Next]_vars

----------------------------------------------------------------------------
(* nonzerosToCSR, the conversion of a list of nonzeros to start, index and *)
(* value slices, on bounded lists.                                         *)

Nonzero(r, c, v) == [Row |-> r, Col |-> c, Val |-> v]

\* The index along the compressed axis, and along the free axis.
Major(e, colMajor) == IF colMajor THEN e.Col ELSE e.Row
Minor(e, colMajor) == IF colMajor THEN e.Row ELSE e.Col

\* One plus the largest index along the compressed axis.
RECURSIVE Dimension(_, _)
Dimension(nz, colMajor) ==
    IF nz = <<>> THEN 0
    ELSE LET d == Dimension(Tail(nz), colMajor)
             x == Major(Head(nz), colMajor) + 1
         IN IF x > d THEN x ELSE d

\* The entries of nz on compressed-axis index a, in the order supplied.
RECURSIVE Segment(_, _, _)
Segment(nz, a, colMajor) ==
    IF nz = <<>> THEN <<>>
    ELSE IF Major(Head(nz), colMajor) = a
         THEN <<Head(nz)>> \o Segment(Tail(nz), a, colMajor)
         ELSE Segment(Tail(nz), a, colMajor)

\* The segments of indices a .. d-1, one after the other.
RECURSIVE Grouped(_, _, _, _)
Grouped(nz, a, d, colMajor) ==
    IF a >= d THEN <<>>
    ELSE Segment(nz, a, colMajor) \o Grouped(nz, a + 1, d, colMajor)

HasNegative(nz) == \E k \in 1 .. Len(nz) : nz[k].Row < 0 \/ nz[k].Col < 0

\* A variant of nonzerosToCSR that keeps the counts and omits the prefix sum.
nonzerosToCSR_counts(nz, colMajor) ==
    IF HasNegative(nz)
    THEN [start |-> <<>>, index |-> <<>>, value |-> <<>>, err |-> TRUE]
    ELSE LET d == Dimension(nz, colMajor)
             g == Grouped(nz, 0, d, colMajor)
         IN [start |-> [i \in 1 .. d |-> Len(Segment(nz, i - 1, colMajor))],
             index |-> [k \in 1 .. Len(g) |-> Minor(g[k], colMajor)],
             value |-> [k \in 1 .. Len(g) |-> g[k].Val],
             err |-> FALSE]

\* nonzerosToCSR: an error on a negative index; otherwise one start offset
\* per index of the compressed axis (the offset of its first entry), and the
\* free-axis indices and the values grouped by compressed-axis index.
nonzerosToCSR(nz, colMajor) ==
    IF HasNegative(nz)
    THEN [start |-> <<>>, index |-> <<>>, value |-> <<>>, err |-> TRUE]
    ELSE LET d == Dimension(nz, colMajor)
             g == Grouped(nz, 0, d, colMajor)
         IN [start |-> [i \in 1 .. d |-> Len(Grouped(nz, 0, i - 1, colMajor))],
             index |-> [k \in 1 .. Len(g) |-> Minor(g[k], colMajor)],
             value |-> [k \in 1 .. Len(g) |-> g[k].Val],
             err |-> FALSE]

\* The matrix of TestMakeSparseMatrix and the slices the test expects.
TestMatrix ==
    <<Nonzero(0, 1, 1), Nonzero(1, 0, 1), Nonzero(1, 1, 2), Nonzero(2, 0, 3),
      Nonzero(2, 1, 2)>>
TestExpected ==
    [start |-> <<0, 1, 3>>, index |-> <<1, 0, 1, 0, 1>>, value |-> <<1, 1, 2, 3, 2>>,
     err |-> FALSE]

\* The lists the conversion is applied to: up to MaxNnz nonzeros, the k-th
\* carrying the value 10 + k.
Entries == [Row : -1 .. MaxRowIdx, Col : -1 .. MaxColIdx]
RECURSIVE ListsOf(_)
ListsOf(n) ==
    IF n = 0 THEN {<<>>}
    ELSE LET shorter == ListsOf(n - 1)
         IN shorter \cup
            {Append(l, Nonzero(e.Row, e.Col, 10 + n)) :
                l \in {x \in shorter : Len(x) = n - 1}, e \in Entries}

CSRInput(nz, colMajor) == [NoCSR EXCEPT !.nz = nz, !.colMajor = colMajor]

\* The conversion applied to the list drawn.
Convert ==
    /\ ~csr.done
    /\ csr' = [csr EXCEPT !.out = nonzerosToCSR(csr.nz, csr.colMajor), !.done = TRUE]
    /\ UNCHANGED <<obj, life, hstate, destroys, eng, frame, log, ret>>

\* TestMakeSparseMatrix: the conversion of the test's matrix.
TestMakeSparseMatrix ==
    /\ csr = NoCSR
    /\ csr' = [nz |-> TestMatrix, colMajor |-> FALSE,
               out |-> nonzerosToCSR(TestMatrix, FALSE), done |-> TRUE]
    /\ UNCHANGED <<obj, life, hstate, destroys, eng, frame, log, ret>>

InitCSR ==
    /\ obj = [m \in Models |-> NULL]
    /\ life = [m \in Models |-> "unborn"]
    /\ hstate = [h \in Handles |-> "free"]
    /\ destroys = [h \in Handles |-> 0]
    /\ eng = [h \in Handles |-> EmptyEngine]
    /\ frame = IdleFrame
    /\ log = NoLog
    /\ ret = NoReturn
    /\ csr \in {CSRInput(nz, colMajor) : nz \in ListsOf(MaxNnz), colMajor \in BOOLEAN}

NextCSR ==
    \/ Convert
    \/ TestMakeSparseMatrix

SpecCSR == InitCSR /\ [][NextCSR]_vars

----------------------------------------------------------------------------
(* Properties.                                                             *)

\* A Solve that returned (it did not panic).
SolveReturned == ret.op = "Solve" /\ ~ret.panic
SolveSucceeded == SolveReturned /\ ret.err = NoError

LastCode == log.codes[Len(log.codes)]
LastCall == log.calls[Len(log.calls)]

\* How many times the call in the log called engine function fn.
CountCalls(fn) == Cardinality({i \in 1 .. Len(log.calls) : log.calls[i].fn = fn})

\* The severity an error value tells its receiver.
Severity(e) ==
    IF e.kind = "nil" THEN "none"
    ELSE IF e.kind = "HighsStatus"
         THEN (IF IsWarning(e) THEN "warning"
               ELSE IF e.Status = kHighsStatusError THEN "error" ELSE "unknown")
    ELSE IF Mentions(e.msg, "warning") THEN "warning"
    ELSE IF Mentions(e.msg, "unknown") THEN "unknown"
    ELSE IF Mentions(e.msg, "error") THEN "error"
    ELSE "none"

NonDecreasing(seq) == \A i \in 1 .. Len(seq) - 1 : seq[i] <= seq[i + 1]

\* C1: when an engine call of Solve returns Warning, Solve returns a non-nil
\* error together with a solution that carries the engine's results (status
\* and vectors), not an empty solution.
C1_WarningReturnsPopulatedSolution ==
    (SolveReturned /\ LastCode = kHighsStatusWarning) =>
        /\ ret.err # NoError
        /\ ret.soln # EmptySolution
        /\ ret.soln.Status # ModelStatusZero

\* C2: when an engine call of Solve returns Error, Solve returns an empty
\* solution and a non-nil error whose message names the failing engine call,
\* for Highs_run as for Highs_getSolution.
C2_ErrorNamesFailingCall ==
    (SolveReturned /\ LastCode = kHighsStatusError) =>
        /\ ret.soln = EmptySolution
        /\ ret.err # NoError
        /\ Mentions(ret.err.msg, LastCall.fn)

\* C3: every wrapper operation that returns classifies the engine's code
\* without collapsing it: the error is nil exactly when every code was Ok,
\* it tells a warning exactly for Warning and an error exactly for Error
\* (IsWarning holds exactly for Warning), and a code outside the three gives
\* a non-nil error that is no warning, with no engine value and no solution.
C3_StatusClassified ==
    (ret.op \in OptionOps \cup InfoOps \cup {"Solve", "newHighsStatus"} /\ ~ret.panic) =>
        /\ ret.err = NoError <=> \A i \in 1 .. Len(log.codes) : log.codes[i] = kHighsStatusOk
        /\ Severity(ret.err) = "warning" <=> LastCode = kHighsStatusWarning
        /\ Severity(ret.err) = "error" <=> LastCode = kHighsStatusError
        /\ ret.err.kind = "HighsStatus" => (IsWarning(ret.err) <=> LastCode = kHighsStatusWarning)
        /\ LastCode \notin {kHighsStatusOk, kHighsStatusWarning, kHighsStatusError} =>
              /\ ret.err # NoError
              /\ Severity(ret.err) = "unknown"
              /\ ret.val # "engine"
              /\ ret.op = "Solve" => ret.soln = EmptySolution

\* C3 witness: Solve has returned after Highs_getSolution gave an unknown code.
C3_Witness ==
    /\ ret.op = "Solve"
    /\ log.codes = <<kHighsStatusOk, kHighsStatusWarning + 1>>
    /\ ret.err # NoError

C5_VectorsCopied ==
    SolveSucceeded =>
        /\ Len(ret.soln.ColumnPrimal) = ret.nc /\ Len(ret.soln.ColumnDual) = ret.nc
        /\ Len(ret.soln.RowPrimal) = ret.nr /\ Len(ret.soln.RowDual) = ret.nr
        /\ \A i \in 1 .. ret.nc : /\ ret.soln.ColumnPrimal[i] = ret.wrote.colValue[i]
                                  /\ ret.soln.ColumnDual[i] = ret.wrote.colDual[i]
        /\ \A i \in 1 .. ret.nr : /\ ret.soln.RowPrimal[i] = ret.wrote.rowValue[i]
                                  /\ ret.soln.RowDual[i] = ret.wrote.rowDual[i]

\* C5 witness: a Solve of a model of two columns and one row has succeeded.
C5_Witness == SolveSucceeded /\ ret.nc = 2 /\ ret.nr = 1

\* C6: a solution returned by a successful solve carries one basis status
\* per column, one per row, and the engine's objective value.
C6_BasisAndObjectiveReturned ==
    SolveSucceeded =>
        /\ ret.soln.ColumnBasis = EngineBasis(ret.h, ret.nc)
        /\ ret.soln.RowBasis = EngineBasis(ret.h, ret.nr)
        /\ ret.soln.Objective = EngineObjective(ret.h)

\* C7: every handle is released exactly once: Highs_destroy is not called
\* twice on a handle, a finalized model's handle is destroyed, and no engine
\* call is made through a handle that has been destroyed.
C7_HandleReleasedOnce ==
    /\ \A h \in Handles : destroys[h] <= 1
    /\ \A m \in Models : life[m] = "finalized" => hstate[obj[m]] = "destroyed"
    /\ \A i \in 1 .. Len(log.calls) : log.calls[i].hs # "destroyed"

\* C8: a call of Solve runs the engine exactly once, calls each of
\* Highs_getModelStatus, Highs_getNumCol, Highs_getNumRow and
\* Highs_getSolution at most once and only after Highs_run returned Ok, and
\* on another status of Highs_run makes no further call and returns an error.
C8_EngineCallsOfSolve ==
    log.op = "Solve" =>
        /\ CountCalls("Highs_run") = 1
        /\ log.calls[1].fn = "Highs_run"
        /\ \A fn \in {"Highs_getModelStatus", "Highs_getNumCol", "Highs_getNumRow",
                      "Highs_getSolution"} : CountCalls(fn) <= 1
        /\ Len(log.calls) > 1 => log.codes[1] = kHighsStatusOk
        /\ log.codes[1] # kHighsStatusOk =>
              /\ Len(log.calls) = 1
              /\ Idle
              /\ ret.op = "Solve" /\ ret.err # NoError

\* C8 witness: Highs_run returned Warning and Solve returned after that one
\* call.
C8_Witness ==
    /\ log.op = "Solve"
    /\ log.codes = <<kHighsStatusWarning>>
    /\ Len(log.calls) = 1
    /\ ret.op = "Solve"

\* C9: a solution returned by Solve with a nil error refers to the handle of
\* the model that produced it (the handle its info accessors call the engine
\* through), never to a null or another handle.
C9_SolutionRefersToEngine ==
    SolveSucceeded => (ret.soln.obj = ret.h /\ ret.soln.obj # NULL)

\* C10: Solve completes without a runtime fault whenever Highs_run returns
\* Ok, also for a model of no columns or no rows.
C10_SolveDoesNotFault ==
    (ret.op = "Solve" /\ log.codes[1] = kHighsStatusOk) => ~ret.panic

====
